---------------------------- MODULE Spec2Model ----------------------------
(***************************************************************************)
(* A model of src/utils/api.ts of twitter-web-exporter: the response       *)
(* decoder, the timeline entry classifiers, the tweet normalizer and the   *)
(* media resolver.                                                         *)
(*                                                                         *)
(* JavaScript values are modelled as follows.                              *)
(*   - an object is a record; an absent property is a name that is not in  *)
(*     the record's DOMAIN;                                                *)
(*   - null and undefined are the records JsNull and JsUndefined;          *)
(*   - a string the code inspects (startsWith, a regular expression) is a  *)
(*     sequence of one-character strings; a string the code only passes    *)
(*     on is a TLA+ string;                                                *)
(*   - a call's outcome is Return(v) or Throw(e).                          *)
(***************************************************************************)
EXTENDS Integers, Sequences, FiniteSets, TLC

VARIABLES pc, fn, arg, cb, ret

vars == <<pc, fn, arg, cb, ret>>

---------------------------------------------------------------------------
(* Bounds of the model. *)

\* Longest instruction list of a response.
MaxInstr == 2
\* Longest entry list of an AddEntries instruction.
MaxEntries == 2
\* Longest variant list of a video.
MaxVariants == 3
\* Greatest bitrate of a variant.
MaxBitrate == 2
\* Most segments appended to the base of a URL.
MaxSegments == 3

---------------------------------------------------------------------------
(* JavaScript values. *)

JsNull == [jstype |-> "null"]

JsUndefined == [jstype |-> "undefined"]

JsString(s) == [jstype |-> "string", str |-> s]

Return(v) == [outcome |-> "return", value |-> v]

Throw(e) == [outcome |-> "throw", error |-> e]

\* obj.f on an object: undefined when the property is absent.
Has(obj, f) == f \in DOMAIN obj

\* A value on which a property read throws a TypeError.
IsNullish(v) == v = JsNull \/ v = JsUndefined

\* A variant of StartsWith that finds the prefix anywhere in s, as
\* String.prototype.includes does.
Includes(s, prefix) ==
    \E i \in 1..Len(s) :
        /\ i + Len(prefix) - 1 <= Len(s)
        /\ SubSeq(s, i, i + Len(prefix) - 1) = prefix

\* String.prototype.startsWith on sequences of characters.
StartsWith(s, prefix) ==
    /\ Len(s) >= Len(prefix)
    /\ SubSeq(s, 1, Len(prefix)) = prefix

\* All sequences over S of length at most n.
SeqsUpTo(S, n) == UNION {[1..k -> S] : k \in 0..n}

---------------------------------------------------------------------------
(* Type predicates: api.ts 70-120. *)

PrefixTweet == <<"t","w","e","e","t","-">>

PrefixUser == <<"u","s","e","r","-">>

PrefixConversationThread ==
    <<"c","o","n","v","e","r","s","a","t","i","o","n","t","h","r","e","a","d","-">>

PrefixProfileConversation ==
    <<"p","r","o","f","i","l","e","-","c","o","n","v","e","r","s","a","t","i","o","n","-">>

\* A variant of isTimelineEntryItem that lets module entries through.
isTimelineEntryItemOrModule(entry) ==
    entry.content.entryType \in {"TimelineTimelineItem", "TimelineTimelineModule"}

isTimelineEntryItem(entry) == entry.content.entryType = "TimelineTimelineItem"

isTimelineEntryTweet(entry) ==
    /\ isTimelineEntryItem(entry)
    /\ StartsWith(entry.entryId, PrefixTweet)
    /\ entry.content.itemContent.__typename = "TimelineTweet"

isTimelineEntryUser(entry) ==
    /\ isTimelineEntryItem(entry)
    /\ StartsWith(entry.entryId, PrefixUser)
    /\ entry.content.itemContent.__typename = "TimelineUser"

isTimelineEntryModule(entry) == entry.content.entryType = "TimelineTimelineModule"

\* Array.isArray(entry.content.items): items is modelled as a record
\* [array |-> <<...>>] when it is an array, and is absent or JsNull otherwise.
ArrayIsArray(content, f) == Has(content, f) /\ Has(content[f], "array")

isTimelineEntryConversationThread(entry) ==
    /\ isTimelineEntryModule(entry)
    /\ StartsWith(entry.entryId, PrefixConversationThread)
    /\ ArrayIsArray(entry.content, "items")

isTimelineEntryProfileConversation(entry) ==
    /\ isTimelineEntryModule(entry)
    /\ StartsWith(entry.entryId, PrefixProfileConversation)
    /\ ArrayIsArray(entry.content, "items")

---------------------------------------------------------------------------
(* Object extractors: api.ts 58-60, 130-179.                               *)
(* A property whose value is null behaves, under ?. and ?? and under a     *)
(* property read, as an absent one, and is modelled as absent.             *)

\* obj.f: the property's value, undefined when it is absent.
Get(obj, f) == IF Has(obj, f) THEN obj[f] ELSE JsUndefined

\* A variant of extractTweetWithVisibility that never unwraps.
extractTweetKeepingWrapper(tweet) == tweet

extractTweetWithVisibility(tweet) ==
    IF /\ ~IsNullish(tweet)
       /\ Has(tweet, "__typename")
       /\ tweet.__typename = "TweetWithVisibilityResults"
    THEN Get(tweet, "tweet")
    ELSE tweet

extractTimelineTweet(itemContent) ==
    extractTweetWithVisibility(itemContent.tweet_results.result)

extractRetweetedTweet(tweet) ==
    IF /\ Has(tweet.legacy, "retweeted_status_result")
       /\ Has(tweet.legacy.retweeted_status_result, "result")
    THEN extractTweetWithVisibility(tweet.legacy.retweeted_status_result.result)
    ELSE JsNull

extractQuotedTweet(tweet) ==
    IF /\ Has(tweet, "quoted_status_result")
       /\ Has(tweet.quoted_status_result, "result")
    THEN extractTweetWithVisibility(tweet.quoted_status_result.result)
    ELSE JsNull

\* The chain of property reads v.p1.p2...pn: a read on null or undefined throws.
RECURSIVE ReadPath(_, _)
ReadPath(v, path) ==
    IF path = <<>> THEN Return(v)
    ELSE IF IsNullish(v) THEN Throw("TypeError")
    ELSE ReadPath(Get(v, Head(path)), Tail(path))

\* tweet.core.user_results.result.legacy, the object whose screen_name is read.
ScreenNamePath == <<"core", "user_results", "result", "legacy">>

\* A variant of extractTweetUserScreenName whose catch block logs nothing.
extractTweetUserScreenNameSilently(tweet) ==
    LET legacy == ReadPath(tweet, ScreenNamePath) IN
    IF legacy.outcome = "throw" \/ IsNullish(legacy.value)
    THEN [outcome |-> "return", value |-> JsString("READ_ERROR"),
          console_log |-> <<tweet>>,
          logger_error |-> <<>>]
    ELSE [outcome |-> "return",
          value |-> IF Has(legacy.value, "screen_name")
                    THEN JsString(legacy.value.screen_name)
                    ELSE JsUndefined,
          console_log |-> <<>>,
          logger_error |-> <<>>]

\* The result carries the calls made to console.log and to logger.error.
extractTweetUserScreenName(tweet) ==
    LET legacy == ReadPath(tweet, ScreenNamePath) IN
    IF legacy.outcome = "throw" \/ IsNullish(legacy.value)
    THEN [outcome |-> "return", value |-> JsString("READ_ERROR"),
          console_log |-> <<tweet>>,
          logger_error |-> <<"Failed to extract tweet user screen name">>]
    ELSE [outcome |-> "return",
          value |-> IF Has(legacy.value, "screen_name")
                    THEN JsString(legacy.value.screen_name)
                    ELSE JsUndefined,
          console_log |-> <<>>,
          logger_error |-> <<>>]

\* A variant of extractTweetMedia that reads the media of the tweet it is
\* given, a retweet wrapper included.
extractTweetMediaOfWrapper(tweet) ==
    IF /\ Has(tweet.legacy, "extended_entities")
       /\ Has(tweet.legacy.extended_entities, "media")
    THEN tweet.legacy.extended_entities.media
    ELSE IF Has(tweet.legacy.entities, "media")
         THEN tweet.legacy.entities.media
         ELSE <<>>

extractTweetMedia(tweet) ==
    LET retweeted == extractRetweetedTweet(tweet)
        realTweet == IF IsNullish(retweeted) THEN tweet ELSE retweeted
    IN  IF /\ Has(realTweet.legacy, "extended_entities")
           /\ Has(realTweet.legacy.extended_entities, "media")
        THEN realTweet.legacy.extended_entities.media
        ELSE IF Has(realTweet.legacy.entities, "media")
             THEN realTweet.legacy.entities.media
             ELSE <<>>

\* A variant of extractTweetFullText with || in the place of ??.
extractTweetFullTextIfTruthy(tweet) ==
    IF /\ Has(tweet, "note_tweet")
       /\ Has(tweet.note_tweet.note_tweet_results.result, "text")
       /\ tweet.note_tweet.note_tweet_results.result.text # ""
    THEN tweet.note_tweet.note_tweet_results.result.text
    ELSE tweet.legacy.full_text

extractTweetFullText(tweet) ==
    IF /\ Has(tweet, "note_tweet")
       /\ Has(tweet.note_tweet.note_tweet_results.result, "text")
    THEN tweet.note_tweet.note_tweet_results.result.text
    ELSE tweet.legacy.full_text

---------------------------------------------------------------------------
(* The response decoder: api.ts 24-52. *)

\* JSON.parse(response.responseText).  A response text is modelled by what it
\* parses to: [value |-> v] is a text that denotes the JSON value v, and a
\* text with no value is malformed.
JSON_parse(responseText) ==
    IF Has(responseText, "value")
    THEN Return(responseText.value)
    ELSE Throw("SyntaxError")

\* The caller's extractInstructionsFromJson.
extractInstructionsFromJson(json) == json.instructions

\* The caller's extractDataFromTimelineEntry, one of two callbacks:
\*   "tweet"  yields the entry's tweet, and no value for an entry that is not
\*            a tweet entry;
\*   "id"     yields a record made of the entry's id, for every entry.
extractDataFromTimelineEntry(callback, entry) ==
    IF callback = "tweet"
    THEN IF isTimelineEntryTweet(entry)
         THEN extractTimelineTweet(entry.content.itemContent)
         ELSE JsUndefined
    ELSE [from |-> entry.entryId]

\* A variant of FindAddEntries that finds the last AddEntries instruction.
FindLastAddEntries(instructions, i) ==
    LET found == {k \in i..Len(instructions) :
                      instructions[k].type = "TimelineAddEntries"}
    IN  IF found = {} THEN 0
        ELSE CHOOSE k \in found : \A j \in found : j <= k

\* instructions.find((i) => i.type === 'TimelineAddEntries'): the index of the
\* first such instruction, 0 when find returns undefined.
RECURSIVE FindAddEntries(_, _)
FindAddEntries(instructions, i) ==
    IF i > Len(instructions) THEN 0
    ELSE IF instructions[i].type = "TimelineAddEntries" THEN i
    ELSE FindAddEntries(instructions, i + 1)

\* The loop of lines 42-49 from entry i on; acc holds newData and the
\* entries the callback has been applied to.
RECURSIVE ForEntries(_, _, _, _)
ForEntries(entries, i, callback, acc) ==
    IF i > Len(entries) THEN acc
    ELSE LET entry == entries[i] IN
         IF isTimelineEntryItem(entry)
         THEN LET data == extractDataFromTimelineEntry(callback, entry) IN
              ForEntries(entries, i + 1, callback,
                  [newData |-> IF IsNullish(data) THEN acc.newData
                               ELSE Append(acc.newData, data),
                   calls |-> Append(acc.calls, entry)])
         ELSE ForEntries(entries, i + 1, callback, acc)

\* A variant of extractDataFromResponse that returns an empty list when no
\* instruction is an AddEntries instruction.
extractDataFromResponseOrEmpty(response, callback) ==
    LET json == JSON_parse(response.responseText) IN
    IF json.outcome = "throw"
    THEN [outcome |-> "throw", error |-> json.error, calls |-> <<>>]
    ELSE LET instructions == extractInstructionsFromJson(json.value)
             found == FindAddEntries(instructions, 1)
             entries == IF found = 0 THEN <<>> ELSE instructions[found].entries
             done == ForEntries(entries, 1, callback,
                                [newData |-> <<>>, calls |-> <<>>])
         IN  [outcome |-> "return", value |-> done.newData, calls |-> done.calls]

extractDataFromResponse(response, callback) ==
    LET json == JSON_parse(response.responseText) IN
    IF json.outcome = "throw"
    THEN [outcome |-> "throw", error |-> json.error, calls |-> <<>>]
    ELSE LET instructions == extractInstructionsFromJson(json.value)
             found == FindAddEntries(instructions, 1)
         IN  IF found = 0
             THEN [outcome |-> "throw", error |-> "TypeError", calls |-> <<>>]
             ELSE LET done == ForEntries(instructions[found].entries, 1, callback,
                                         [newData |-> <<>>, calls |-> <<>>])
                  IN  [outcome |-> "return", value |-> done.newData,
                       calls |-> done.calls]

---------------------------------------------------------------------------
(* Media operations: api.ts 189-237.  URLs are sequences of characters. *)

\* The class \w of a regular expression.
WordChars ==
    {"a", "b", "c", "d", "e", "f", "g", "h", "i", "j", "k", "l", "m",
     "n", "o", "p", "q", "r", "s", "t", "u", "v", "w", "x", "y", "z",
     "A", "B", "C", "D", "E", "F", "G", "H", "I", "J", "K", "L", "M",
     "N", "O", "P", "Q", "R", "S", "T", "U", "V", "W", "X", "Y", "Z",
     "0", "1", "2", "3", "4", "5", "6", "7", "8", "9", "_"}

\* The characters that . does not match: LF, CR, U+2028 LINE SEPARATOR and
\* U+2029 PARAGRAPH SEPARATOR.  The last two, which a TLA+ string cannot
\* hold, are written as their escapes, each standing for the one character.
LineSeparator == "\\u2028"

ParagraphSeparator == "\\u2029"

LineTerminators == {"\n", "\r", LineSeparator, ParagraphSeparator}

\* The length of the longest run of \w characters of s that starts at i.
RECURSIVE WordRun(_, _)
WordRun(s, i) ==
    IF i <= Len(s) /\ s[i] \in WordChars THEN 1 + WordRun(s, i + 1) ELSE 0

\* Whether the literal lit occurs in s at position i.
LitAt(s, i, lit) ==
    /\ i + Len(lit) - 1 <= Len(s)
    /\ SubSeq(s, i, i + Len(lit) - 1) = lit

\* .+$ from position i: at least one character, none a line terminator.
RestIsDotPlus(s, i) ==
    /\ i <= Len(s)
    /\ \A k \in i..Len(s) : s[k] \notin LineTerminators

FormatEq == <<"f","o","r","m","a","t","=">>

\* format=(\w+) at position i.
MatchFormat(s, i) == LitAt(s, i, FormatEq) /\ WordRun(s, i + 7) >= 1

\* \.(\w+)$ at position i.
MatchDotEnd(s, i) ==
    /\ s[i] = "."
    /\ WordRun(s, i + 1) >= 1
    /\ i + WordRun(s, i + 1) = Len(s)

\* \.(\w+)\?.+$ at position i.
MatchDotQuery(s, i) ==
    LET n == WordRun(s, i + 1) IN
    /\ s[i] = "."
    /\ n >= 1
    /\ LitAt(s, i + n + 1, <<"?">>)
    /\ RestIsDotPlus(s, i + n + 2)

\* /format=(\w+)|\.(\w+)$|\.(\w+)\?.+$/.exec(s) from position i on: the match
\* at the first position where an alternative matches, the alternatives tried
\* in order there; the match holds the one group that took part.
RECURSIVE ExtensionRegexExec(_, _)
ExtensionRegexExec(s, i) ==
    IF i > Len(s) THEN JsNull
    ELSE IF MatchFormat(s, i)
         THEN [index |-> i, g1 |-> SubSeq(s, i + 7, i + 6 + WordRun(s, i + 7))]
    ELSE IF MatchDotEnd(s, i)
         THEN [index |-> i, g2 |-> SubSeq(s, i + 1, Len(s))]
    ELSE IF MatchDotQuery(s, i)
         THEN [index |-> i, g3 |-> SubSeq(s, i + 1, i + WordRun(s, i + 1))]
    ELSE ExtensionRegexExec(s, i + 1)

Jpg == <<"j","p","g">>

\* A variant of getFileExtensionFromUrl that looks for format=(\w+) in the
\* whole URL before it tries the other two patterns.
getFileExtensionFormatFirst(url) ==
    LET formats == {i \in 1..Len(url) : MatchFormat(url, i)}
        first == CHOOSE i \in formats : \A j \in formats : i <= j
        match == ExtensionRegexExec(url, 1)
    IN  IF formats # {}
        THEN SubSeq(url, first + 7, first + 6 + WordRun(url, first + 7))
        ELSE IF Has(match, "g2") THEN match.g2
        ELSE IF Has(match, "g3") THEN match.g3
        ELSE Jpg

getFileExtensionFromUrl(url) ==
    LET match == ExtensionRegexExec(url, 1) IN
    IF Has(match, "g1") THEN match.g1
    ELSE IF Has(match, "g2") THEN match.g2
    ELSE IF Has(match, "g3") THEN match.g3
    ELSE Jpg

HttpMedia == <<"h","t","t","p",":","/","/","p","b","s",".","t","w","i","m","g",".","c","o","m","/","m","e","d","i","a","/">>

HttpsMedia == <<"h","t","t","p","s",":","/","/","p","b","s",".","t","w","i","m","g",".","c","o","m","/","m","e","d","i","a","/">>

\* The position of the last "." of s at or before i, 0 when there is none.
RECURSIVE LastDot(_, _)
LastDot(s, i) ==
    IF i = 0 THEN 0 ELSE IF s[i] = "." THEN i ELSE LastDot(s, i - 1)

\* imgUrl.match(/^(https?:\/\/pbs\.twimg\.com\/media\/.+)\.(\w+)$/): the two
\* groups, or null.  (\w+)$ after a "." forces that "." to be the last one.
ImageRegexMatch(imgUrl) ==
    LET p == IF LitAt(imgUrl, 1, HttpsMedia) THEN Len(HttpsMedia)
             ELSE IF LitAt(imgUrl, 1, HttpMedia) THEN Len(HttpMedia)
             ELSE 0
        k == LastDot(imgUrl, Len(imgUrl))
    IN  IF /\ p > 0
           /\ k >= p + 2
           /\ \A j \in (p + 1)..(k - 1) : imgUrl[j] \notin LineTerminators
           /\ MatchDotEnd(imgUrl, k)
        THEN [url |-> SubSeq(imgUrl, 1, k - 1),
              ext |-> SubSeq(imgUrl, k + 1, Len(imgUrl))]
        ELSE JsNull

QName == <<"?","n","a","m","e","=">>

QFormat == <<"?","f","o","r","m","a","t","=">>

AmpName == <<"&","n","a","m","e","=">>

Orig == <<"o","r","i","g">>

formatTwitterImage(imgUrl, name) ==
    LET match == ImageRegexMatch(imgUrl) IN
    IF match = JsNull
    THEN imgUrl \o QName \o name
    ELSE match.url \o QFormat \o match.ext \o AmpName \o name

\* variant.bitrate ?? 0 of a variant that may be undefined.
BitrateOrZero(variant) ==
    IF ~IsNullish(variant) /\ Has(variant, "bitrate") THEN variant.bitrate ELSE 0

\* A variant of ForVariants in which a later variant of equal bitrate wins.
RECURSIVE ForVariantsLastWins(_, _, _)
ForVariantsLastWins(variants, i, maxBitrateVariant) ==
    IF i > Len(variants) THEN maxBitrateVariant
    ELSE LET variant == variants[i] IN
         IF /\ BitrateOrZero(variant) # 0
            /\ variant.bitrate >= BitrateOrZero(maxBitrateVariant)
         THEN ForVariantsLastWins(variants, i + 1, variant)
         ELSE ForVariantsLastWins(variants, i + 1, maxBitrateVariant)

\* The loop of lines 195-199 from variant i on.
RECURSIVE ForVariants(_, _, _)
ForVariants(variants, i, maxBitrateVariant) ==
    IF i > Len(variants) THEN maxBitrateVariant
    ELSE LET variant == variants[i] IN
         IF /\ BitrateOrZero(variant) # 0
            /\ variant.bitrate > BitrateOrZero(maxBitrateVariant)
         THEN ForVariants(variants, i + 1, variant)
         ELSE ForVariants(variants, i + 1, maxBitrateVariant)

getMediaOriginalUrl(media) ==
    IF media.type = "video" \/ media.type = "animated_gif"
    THEN LET variants == IF /\ Has(media, "video_info")
                            /\ Has(media.video_info, "variants")
                         THEN media.video_info.variants
                         ELSE <<>>
             first == IF Len(variants) >= 1 THEN variants[1] ELSE JsUndefined
             maxBitrateVariant == ForVariants(variants, 1, first)
         IN  IF ~IsNullish(maxBitrateVariant) /\ Has(maxBitrateVariant, "url")
             THEN maxBitrateVariant.url
             ELSE media.media_url_https
    ELSE formatTwitterImage(media.media_url_https, Orig)

---------------------------------------------------------------------------
(* The inputs the operations are applied to. *)

\* The object with no property.
EmptyObj == [f \in {} |-> f]

\* The ways a property f can be set: absent, or one of the values of S.
Opt(f, S) == {EmptyObj} \cup {f :> v : v \in S}

UrlPhotoOld == HttpsMedia \o <<"F","1",".","j","p","g">>

UrlPhotoNew == HttpsMedia \o <<"F","2">>

UrlVideoThumb == <<"h","t","t","p","s",":","/","/","p","b","s",".","t","w","i","m","g",".","c","o","m","/","e","x","t","_","t","w","_","v","i","d","e","o","_","t","h","u","m","b","/","1","/","p","u","/","i","m","g","/","x",".","j","p","g">>

Photo1 == [type |-> "photo", media_url_https |-> UrlPhotoOld]

Photo2 == [type |-> "photo", media_url_https |-> UrlPhotoNew]

Video1 == [type |-> "video", media_url_https |-> UrlVideoThumb,
           video_info |-> [variants |-> <<[bitrate |-> 1, url |-> <<"v","1">>]>>]]

\* The user of a tweet: core.user_results.result.legacy.screen_name.
CoreOf(name) == [user_results |-> [result |-> [legacy |-> [screen_name |-> name]]]]

\* The media-bearing parts of a tweet's legacy record.
LegacyMediaParts ==
    {[entities |-> [hashtags |-> <<>>] @@ e] @@ x :
        e \in Opt("media", {<<>>, <<Photo2>>}),
        x \in Opt("extended_entities",
                  {EmptyObj, [media |-> <<>>], [media |-> <<Photo1, Video1>>]})}

\* Tweets that link no other tweet.
LeafTweets(id, text) ==
    {[__typename |-> "Tweet", rest_id |-> id, core |-> CoreOf("alice"),
      legacy |-> [full_text |-> text] @@ m] : m \in LegacyMediaParts}

Wrap(tweet) == [__typename |-> "TweetWithVisibilityResults", tweet |-> tweet]

\* A tweet payload as the types declare it: a tweet, or one visibility wrapper.
TypedPayloads == UNION {{t, Wrap(t)} : t \in LeafTweets("2", "target")}

\* Payloads beyond the declared types: a wrapper in a wrapper, a wrapper with
\* no tweet, null.
UntypedPayloads ==
    {Wrap(Wrap(t)) : t \in LeafTweets("2", "target")}
        \cup {[__typename |-> "TweetWithVisibilityResults"], JsNull}

Payloads == TypedPayloads \cup UntypedPayloads

\* Tweets with a retweeted_status_result: with no result, or with one of S.
Retweets(S) ==
    {[t EXCEPT !.legacy = @ @@ r] :
        t \in LeafTweets("1", "RT"),
        r \in {"retweeted_status_result" :> v :
                   v \in {EmptyObj} \cup {[result |-> x] : x \in S}}}

\* Tweets with a quoted_status_result: with no result, or with one of S.
Quotes(S) ==
    {t @@ q :
        t \in LeafTweets("1", "QT"),
        q \in {"quoted_status_result" :> v :
                   v \in {EmptyObj} \cup {[result |-> x] : x \in S}}}

LinkedPayloads == Payloads \ {JsNull}

RetweetInputs == LeafTweets("1", "plain") \cup Retweets(LinkedPayloads)

QuoteInputs == LeafTweets("1", "plain") \cup Quotes(LinkedPayloads)

MediaInputs == LeafTweets("1", "plain") \cup Retweets(TypedPayloads)

\* Tweets whose user path stops at each of its steps.
ScreenNameInputs ==
    {[__typename |-> "Tweet", rest_id |-> "1", legacy |-> [full_text |-> "t"]] @@ c :
        c \in Opt("core",
                  {EmptyObj,
                   [user_results |-> EmptyObj],
                   [user_results |-> [result |-> EmptyObj]],
                   [user_results |-> [result |-> [rest_id |-> "9"]]],
                   [user_results |-> [result |-> [legacy |-> EmptyObj]]],
                   [user_results |-> [result |-> [legacy |-> [name |-> "A"]]]],
                   CoreOf(""), CoreOf("alice"), CoreOf("bob")})}
        \cup {JsNull}

Texts == {"", "short", "much longer text..."}

FullTextInputs ==
    {[__typename |-> "Tweet", rest_id |-> "1", legacy |-> [full_text |-> t]] @@ n :
        t \in Texts,
        n \in Opt("note_tweet",
                  {[note_tweet_results |-> [result |-> [id |-> "n", text |-> x]]] :
                       x \in Texts})}

TheTweet == CHOOSE t \in LeafTweets("1", "plain") :
                ~Has(t.legacy, "extended_entities") /\ ~Has(t.legacy.entities, "media")

TheUser == [__typename |-> "User", rest_id |-> "7", legacy |-> [screen_name |-> "bob"]]

ItemTweet(payload) ==
    [entryType |-> "TimelineTimelineItem",
     itemContent |-> [__typename |-> "TimelineTweet",
                      tweet_results |-> [result |-> payload]]]

ItemUser ==
    [entryType |-> "TimelineTimelineItem",
     itemContent |-> [__typename |-> "TimelineUser",
                      user_results |-> [result |-> TheUser]]]

ItemPrompt ==
    [entryType |-> "TimelineTimelineItem",
     itemContent |-> [__typename |-> "TimelineMessagePrompt"]]

\* A module whose items is the array a.
ModuleOf(a) == [entryType |-> "TimelineTimelineModule", items |-> [array |-> a]]

\* A module with no items array.
ModuleNoItems == [entryType |-> "TimelineTimelineModule"]

Cursor == [entryType |-> "TimelineTimelineCursor", value |-> "c"]

Contents ==
    {ItemTweet(TheTweet), ItemTweet(Wrap(TheTweet)), ItemUser, ItemPrompt,
     ModuleOf(<<>>), ModuleOf(<<[item |-> ItemTweet(TheTweet).itemContent]>>),
     ModuleNoItems, Cursor}

IdTweet1 == PrefixTweet \o <<"1">>

IdUser1 == PrefixUser \o <<"1">>

IdThread1 == PrefixConversationThread \o <<"1">>

IdProfile1 == PrefixProfileConversation \o <<"1">>

EntryIds ==
    {IdTweet1, IdUser1, IdThread1, IdProfile1,
     <<"t","w","e","e","t">>, <<"c","u","r","s","o","r","-","t","o","p","-","1">>,
     <<"p","r","o","m","o","t","e","d","-","t","w","e","e","t","-","1">>, <<"T","w","e","e","t","-","1">>}

\* Every pairing of an id with a content, the disagreeing ones included.
Entries == {[entryId |-> i, content |-> c] : i \in EntryIds, c \in Contents}

\* The entries of the responses.
EntryPool ==
    {[entryId |-> IdTweet1, content |-> ItemTweet(Wrap(TheTweet))],
     [entryId |-> IdUser1, content |-> ItemUser],
     [entryId |-> IdThread1,
      content |-> ModuleOf(<<[item |-> ItemTweet(TheTweet).itemContent]>>)]}

InstructionPool ==
    {[type |-> "TimelineClearCache"]}
        \cup {[type |-> "TimelineAddEntries", entries |-> es] :
                  es \in SeqsUpTo(EntryPool, MaxEntries)}

Responses ==
    {[responseText |-> [raw |-> "<html>"]]}
        \cup {[responseText |-> [value |-> [instructions |-> is]]] :
                  is \in SeqsUpTo(InstructionPool, MaxInstr)}

Callbacks == {"tweet", "id"}

DigitChars == <<"1","2","3","4","5","6","7","8","9">>

VariantLists ==
    UNION {{[i \in 1..k |-> [url |-> <<"v", DigitChars[i]>>] @@ f[i]] :
                f \in [1..k -> Opt("bitrate", 0..MaxBitrate)]} :
           k \in 0..MaxVariants}

MediaRecords ==
    {[type |-> t, media_url_https |-> u] @@ v :
        t \in {"photo", "video", "animated_gif"},
        u \in {UrlPhotoOld, UrlPhotoNew},
        v \in Opt("video_info",
                  {EmptyObj} \cup {[variants |-> vs] : vs \in VariantLists})}

UrlBases == {<<"h","t","t","p","s",":","/","/","p","b","s",".","t","w","i","m","g",".","c","o","m","/","m","e","d","i","a","/","F","1">>,
             <<"h","t","t","p","s",":","/","/","v","i","d","e","o",".","t","w","i","m","g",".","c","o","m","/","v">>}

UrlSegments ==
    {<<".","j","p","g">>, <<".","m","p","4">>,
     <<"?","f","o","r","m","a","t","=","p","n","g">>, <<"?","t","a","g","=","1","4">>,
     <<"&","n","a","m","e","=","o","r","i","g">>, <<"/","1","6","9">>, <<"?">>,
     <<LineSeparator>>}

RECURSIVE Concat(_)
Concat(ss) == IF ss = <<>> THEN <<>> ELSE Head(ss) \o Concat(Tail(ss))

Urls == {b \o Concat(ss) : b \in UrlBases, ss \in SeqsUpTo(UrlSegments, MaxSegments)}

---------------------------------------------------------------------------
(* The state machine: a call is drawn, then made. *)

Pending == [outcome |-> "pending"]

Call(f, S) == pc = "call" /\ fn = f /\ arg \in S

Init ==
    /\ pc = "call"
    /\ ret = Pending
    /\ \/ Call("extractDataFromResponse", Responses) /\ cb \in Callbacks
       \/ /\ cb = "none"
          /\ \/ Call("isTimelineEntryItem", Entries)
             \/ Call("isTimelineEntryTweet", Entries)
             \/ Call("isTimelineEntryUser", Entries)
             \/ Call("isTimelineEntryModule", Entries)
             \/ Call("isTimelineEntryConversationThread", Entries)
             \/ Call("isTimelineEntryProfileConversation", Entries)
             \/ Call("extractTweetWithVisibility", Payloads)
             \/ Call("extractRetweetedTweet", RetweetInputs)
             \/ Call("extractQuotedTweet", QuoteInputs)
             \/ Call("extractTweetUserScreenName", ScreenNameInputs)
             \/ Call("extractTweetMedia", MediaInputs)
             \/ Call("extractTweetFullText", FullTextInputs)
             \/ Call("getMediaOriginalUrl", MediaRecords)
             \/ Call("getFileExtensionFromUrl", Urls)

Done(f, result) ==
    /\ pc = "call"
    /\ fn = f
    /\ pc' = "done"
    /\ ret' = result
    /\ UNCHANGED <<fn, arg, cb>>

ExtractDataFromResponse ==
    Done("extractDataFromResponse", extractDataFromResponse(arg, cb))

IsTimelineEntryItem ==
    Done("isTimelineEntryItem", Return(isTimelineEntryItem(arg)))

IsTimelineEntryTweet ==
    Done("isTimelineEntryTweet", Return(isTimelineEntryTweet(arg)))

IsTimelineEntryUser ==
    Done("isTimelineEntryUser", Return(isTimelineEntryUser(arg)))

IsTimelineEntryModule ==
    Done("isTimelineEntryModule", Return(isTimelineEntryModule(arg)))

IsTimelineEntryConversationThread ==
    Done("isTimelineEntryConversationThread",
         Return(isTimelineEntryConversationThread(arg)))

IsTimelineEntryProfileConversation ==
    Done("isTimelineEntryProfileConversation",
         Return(isTimelineEntryProfileConversation(arg)))

ExtractTweetWithVisibility ==
    Done("extractTweetWithVisibility", Return(extractTweetWithVisibility(arg)))

ExtractRetweetedTweet ==
    Done("extractRetweetedTweet", Return(extractRetweetedTweet(arg)))

ExtractQuotedTweet ==
    Done("extractQuotedTweet", Return(extractQuotedTweet(arg)))

ExtractTweetUserScreenName ==
    Done("extractTweetUserScreenName", extractTweetUserScreenName(arg))

ExtractTweetMedia ==
    Done("extractTweetMedia", Return(extractTweetMedia(arg)))

ExtractTweetFullText ==
    Done("extractTweetFullText", Return(extractTweetFullText(arg)))

GetMediaOriginalUrl ==
    Done("getMediaOriginalUrl", Return(getMediaOriginalUrl(arg)))

GetFileExtensionFromUrl ==
    Done("getFileExtensionFromUrl", Return(getFileExtensionFromUrl(arg)))

Next ==
    \/ ExtractDataFromResponse
    \/ IsTimelineEntryItem
    \/ IsTimelineEntryTweet
    \/ IsTimelineEntryUser
    \/ IsTimelineEntryModule
    \/ IsTimelineEntryConversationThread
    \/ IsTimelineEntryProfileConversation
    \/ ExtractTweetWithVisibility
    \/ ExtractRetweetedTweet
    \/ ExtractQuotedTweet
    \/ ExtractTweetUserScreenName
    \/ ExtractTweetMedia
    \/ ExtractTweetFullText
    \/ GetMediaOriginalUrl
    \/ GetFileExtensionFromUrl

Spec == Init /\ [][Next]_vars

---------------------------------------------------------------------------
(* Properties of the response decoder. *)

Returned(f) == pc = "done" /\ fn = f

\* The instruction list of a response whose body parses.
InstructionsOf(response) == response.responseText.value.instructions

Parses(response) == "value" \in DOMAIN response.responseText

HasAddEntries(response) ==
    \E i \in DOMAIN InstructionsOf(response) :
        InstructionsOf(response)[i].type = "TimelineAddEntries"

\* The entries of the first AddEntries instruction.
FirstAddEntries(response) ==
    LET is == InstructionsOf(response)
        first == CHOOSE i \in DOMAIN is :
                     /\ is[i].type = "TimelineAddEntries"
                     /\ \A j \in 1..(i - 1) : is[j].type # "TimelineAddEntries"
    IN  is[first].entries

IsItem(entry) == entry.content.entryType = "TimelineTimelineItem"

Yields(entry) == extractDataFromTimelineEntry(cb, entry)

YieldsValue(entry) == IsItem(entry) /\ Yields(entry) \notin {JsNull, JsUndefined}

\* C1: for a response that parses and holds an AddEntries instruction, the
\* result is the sequence of the values the callback yields on the item
\* entries of the first AddEntries instruction, in entry order, duplicates
\* kept, nothing taken from a later instruction.
C1_FirstAddEntriesInOrder ==
    (Returned("extractDataFromResponse") /\ Parses(arg) /\ HasAddEntries(arg)) =>
        LET kept == SelectSeq(FirstAddEntries(arg), YieldsValue) IN
        /\ ret.outcome = "return"
        /\ ret.value = [k \in 1..Len(kept) |-> Yields(kept[k])]

\* Two AddEntries instructions with different entries; the first one's two
\* entries yield two different values, returned in that order.
C1_Witness ==
    /\ Returned("extractDataFromResponse") /\ Parses(arg)
    /\ Len(InstructionsOf(arg)) = 2
    /\ InstructionsOf(arg)[1].type = "TimelineAddEntries"
    /\ InstructionsOf(arg)[2].type = "TimelineAddEntries"
    /\ InstructionsOf(arg)[1].entries # InstructionsOf(arg)[2].entries
    /\ Len(InstructionsOf(arg)[2].entries) = 2
    /\ ret.outcome = "return"
    /\ Len(ret.value) = 2
    /\ ret.value[1] # ret.value[2]
    /\ ret.value[1] = Yields(InstructionsOf(arg)[1].entries[1])

\* C2: the result is no longer than the number N of entries that narrow to
\* item entries, the callback is applied to item entries only, and no value
\* of the result is derived from an entry that fails to narrow.
C2_OnlyNarrowedEntries ==
    (Returned("extractDataFromResponse") /\ ret.outcome = "return") =>
        LET es == FirstAddEntries(arg)
            N == Cardinality({i \in DOMAIN es : IsItem(es[i])})
        IN  /\ Len(ret.value) <= N
            /\ Len(ret.calls) = N
            /\ \A k \in DOMAIN ret.calls : IsItem(ret.calls[k])
            /\ \A k \in DOMAIN ret.value :
                   /\ \E i \in DOMAIN es : IsItem(es[i]) /\ ret.value[k] = Yields(es[i])
                   /\ \A i \in DOMAIN es :
                          ~IsItem(es[i]) => ret.value[k] # [from |-> es[i].entryId]

\* An entry that does not narrow comes before an item entry; the callback,
\* which yields a value for every entry it is given, is applied to the item
\* entry alone and the result holds that entry's value alone.
C2_Witness ==
    /\ Returned("extractDataFromResponse") /\ ret.outcome = "return"
    /\ cb = "id"
    /\ Len(FirstAddEntries(arg)) = 2
    /\ ~IsItem(FirstAddEntries(arg)[1])
    /\ IsItem(FirstAddEntries(arg)[2])
    /\ ret.calls = <<FirstAddEntries(arg)[2]>>
    /\ ret.value = <<[from |-> FirstAddEntries(arg)[2].entryId]>>

\* C3: the call throws, and returns no list, exactly when the body does not
\* parse or no instruction is an AddEntries instruction; in every other case
\* it returns a list, the loop having gone over every entry.
C3_TwoFatalOutcomes ==
    Returned("extractDataFromResponse") =>
        /\ ret.outcome \in {"return", "throw"}
        /\ ret.outcome = "throw" <=> (~Parses(arg) \/ ~HasAddEntries(arg))
        /\ ret.outcome = "throw" => "value" \notin DOMAIN ret
        /\ ret.outcome = "return" =>
               /\ "value" \in DOMAIN ret
               /\ ret.calls = SelectSeq(FirstAddEntries(arg), IsItem)

\* A body that parses, with instructions, none an AddEntries instruction.
C3_Witness ==
    /\ Returned("extractDataFromResponse") /\ Parses(arg)
    /\ Len(InstructionsOf(arg)) >= 1
    /\ ~HasAddEntries(arg)
    /\ ret.outcome = "throw"
    /\ ret.error = "TypeError"

---------------------------------------------------------------------------
(* Properties of the tweet normalizer. *)

IsWrapper(p) ==
    /\ p \notin {JsNull, JsUndefined}
    /\ "__typename" \in DOMAIN p
    /\ p.__typename = "TweetWithVisibilityResults"

Inner(p) == IF "tweet" \in DOMAIN p THEN p.tweet ELSE JsUndefined

\* No wrapper directly inside a wrapper.
WrappedAtMostOnce(p) == IsWrapper(p) => ~IsWrapper(Inner(p))

\* The payload a tweet links as retweeted (f = "retweet") or quoted.
HasLinked(tweet, f) ==
    IF f = "retweet"
    THEN /\ "retweeted_status_result" \in DOMAIN tweet.legacy
         /\ "result" \in DOMAIN tweet.legacy.retweeted_status_result
    ELSE /\ "quoted_status_result" \in DOMAIN tweet
         /\ "result" \in DOMAIN tweet.quoted_status_result

Linked(tweet, f) ==
    IF f = "retweet"
    THEN tweet.legacy.retweeted_status_result.result
    ELSE tweet.quoted_status_result.result

\* C4 as stated: unwrapping is idempotent on every payload, a wrapper in a
\* wrapper included, so the tweet that extractRetweetedTweet and
\* extractQuotedTweet return is never a visibility wrapper.
C4_IdempotentOnEveryPayload ==
    /\ Returned("extractTweetWithVisibility") =>
           extractTweetWithVisibility(ret.value) = ret.value
    /\ Returned("extractRetweetedTweet") => ~IsWrapper(ret.value)
    /\ Returned("extractQuotedTweet") => ~IsWrapper(ret.value)

\* C4 amended: unwrapping removes exactly one wrapper.  It is idempotent, and
\* its result is no wrapper, on every payload that holds no wrapper directly
\* inside a wrapper; on a wrapper in a wrapper it returns the inner wrapper,
\* which a second application changes again.  The tweet returned by
\* extractRetweetedTweet and extractQuotedTweet is no wrapper when the linked
\* payload is wrapped at most once.
C4_IdempotentOnSingleWrapper ==
    /\ (Returned("extractTweetWithVisibility") /\ WrappedAtMostOnce(arg)) =>
           /\ ~IsWrapper(ret.value)
           /\ extractTweetWithVisibility(ret.value) = ret.value
    /\ (Returned("extractTweetWithVisibility") /\ ~WrappedAtMostOnce(arg)) =>
           /\ ret.value = Inner(arg)
           /\ extractTweetWithVisibility(ret.value) = Inner(Inner(arg))
           /\ extractTweetWithVisibility(ret.value) # ret.value
    /\ \A f \in {"retweet", "quote"} :
           (/\ Returned(IF f = "retweet" THEN "extractRetweetedTweet"
                        ELSE "extractQuotedTweet")
            /\ HasLinked(arg, f)
            /\ WrappedAtMostOnce(Linked(arg, f))) => ~IsWrapper(ret.value)

\* A retweet whose target is in one visibility wrapper: the target comes out.
C4_Witness ==
    /\ Returned("extractRetweetedTweet")
    /\ HasLinked(arg, "retweet")
    /\ IsWrapper(Linked(arg, "retweet"))
    /\ "tweet" \in DOMAIN Linked(arg, "retweet")
    /\ ret.value = Linked(arg, "retweet").tweet
    /\ ret.value.__typename = "Tweet"

\* The media list of a tweet: extended_entities.media, else entities.media,
\* else none.
MediaOf(tweet) ==
    IF /\ "extended_entities" \in DOMAIN tweet.legacy
       /\ "media" \in DOMAIN tweet.legacy.extended_entities
    THEN tweet.legacy.extended_entities.media
    ELSE IF "media" \in DOMAIN tweet.legacy.entities
         THEN tweet.legacy.entities.media
         ELSE <<>>

\* C6: the media list is that of the real tweet: of the unwrapped retweet
\* target when the tweet has a retweeted-status result, of the tweet itself
\* otherwise; the wrapper's own lists are not read when a target exists.
C6_MediaOfRealTweet ==
    Returned("extractTweetMedia") =>
        LET realTweet ==
                IF HasLinked(arg, "retweet")
                THEN IF IsWrapper(Linked(arg, "retweet"))
                     THEN Inner(Linked(arg, "retweet"))
                     ELSE Linked(arg, "retweet")
                ELSE arg
        IN  ret.value = MediaOf(realTweet)

\* A retweet wrapper whose own media list is empty and whose target, in a
\* visibility wrapper, has two media items: those two are returned.
C6_Witness ==
    /\ Returned("extractTweetMedia")
    /\ HasLinked(arg, "retweet")
    /\ IsWrapper(Linked(arg, "retweet"))
    /\ MediaOf(arg) = <<>>
    /\ "media" \in DOMAIN arg.legacy.entities
    /\ Len(MediaOf(Inner(Linked(arg, "retweet")))) = 2
    /\ ret.value = MediaOf(Inner(Linked(arg, "retweet")))

\* The note extension's text of a tweet that carries one.
HasNote(tweet) == "note_tweet" \in DOMAIN tweet

\* C10: the note extension's text is returned whenever there is a note
\* extension, whatever the text; the legacy full text otherwise.
C10_NoteTextWins ==
    Returned("extractTweetFullText") =>
        ret.value = IF HasNote(arg)
                    THEN arg.note_tweet.note_tweet_results.result.text
                    ELSE arg.legacy.full_text

\* An empty note text, shorter than the legacy text, is returned.
C10_Witness ==
    /\ Returned("extractTweetFullText")
    /\ HasNote(arg)
    /\ arg.note_tweet.note_tweet_results.result.text = ""
    /\ Len(arg.legacy.full_text) > 0
    /\ ret.value = ""

\* The number of fields of core.user_results.result.legacy that the tweet
\* holds, counted from core: 4 when legacy can be read.
RECURSIVE PathDepth(_, _)
PathDepth(obj, path) ==
    IF path = <<>> \/ obj \in {JsNull, JsUndefined} THEN 0
    ELSE IF Head(path) \in DOMAIN obj
         THEN 1 + PathDepth(obj[Head(path)], Tail(path))
         ELSE 0

LegacyOfUser(tweet) == tweet.core.user_results.result.legacy

ReadError ==
    /\ ret.value = JsString("READ_ERROR")
    /\ Len(ret.logger_error) = 1

\* C7 as stated: the call never throws; with the whole path present it
\* returns the screen name and logs nothing; with any of core, user_results,
\* result, legacy or screen_name missing it returns "READ_ERROR" and logs
\* exactly once.
C7_AnyMissingFieldIsReadError ==
    Returned("extractTweetUserScreenName") =>
        /\ ret.outcome = "return"
        /\ IF /\ PathDepth(arg, ScreenNamePath) = 4
              /\ "screen_name" \in DOMAIN LegacyOfUser(arg)
           THEN /\ ret.value = JsString(LegacyOfUser(arg).screen_name)
                /\ ret.logger_error = <<>>
           ELSE ReadError

\* C7 amended: the call never throws; with core, user_results, result or
\* legacy missing it returns "READ_ERROR" and logs exactly once; with legacy
\* present it logs nothing and returns legacy's screen_name, which is
\* undefined, not "READ_ERROR", when only screen_name is missing.
C7_MissingObjectIsReadError ==
    Returned("extractTweetUserScreenName") =>
        /\ ret.outcome = "return"
        /\ IF PathDepth(arg, ScreenNamePath) = 4
           THEN /\ ret.logger_error = <<>>
                /\ ret.value = IF "screen_name" \in DOMAIN LegacyOfUser(arg)
                               THEN JsString(LegacyOfUser(arg).screen_name)
                               ELSE JsUndefined
           ELSE ReadError

\* A tweet with no core.user_results: the sentinel, logged once.
C7_Witness ==
    /\ Returned("extractTweetUserScreenName")
    /\ PathDepth(arg, ScreenNamePath) = 1
    /\ ret.value = JsString("READ_ERROR")
    /\ Len(ret.logger_error) = 1

---------------------------------------------------------------------------
(* Properties of the media resolver. *)

\* C5: for a video or an animated_gif the URL returned is that of the first
\* variant, in list order, whose bitrate is the greatest of the list, a
\* missing bitrate counting as 0; it is the media's base URL when there is no
\* variant.
C5_FirstGreatestBitrate ==
    (Returned("getMediaOriginalUrl") /\ arg.type \in {"video", "animated_gif"}) =>
        LET vs == IF /\ "video_info" \in DOMAIN arg
                     /\ "variants" \in DOMAIN arg.video_info
                  THEN arg.video_info.variants
                  ELSE <<>>
            br(i) == IF "bitrate" \in DOMAIN vs[i] THEN vs[i].bitrate ELSE 0
        IN  IF vs = <<>>
            THEN ret.value = arg.media_url_https
            ELSE \E i \in DOMAIN vs :
                     /\ \A j \in DOMAIN vs : br(j) <= br(i)
                     /\ \A j \in 1..(i - 1) : br(j) < br(i)
                     /\ ret.value = vs[i].url

\* The first variant has no bitrate, the next two share the greatest one:
\* the first of those two is chosen.
C5_Witness ==
    /\ Returned("getMediaOriginalUrl")
    /\ arg.type = "video"
    /\ "video_info" \in DOMAIN arg
    /\ "variants" \in DOMAIN arg.video_info
    /\ Len(arg.video_info.variants) = 3
    /\ "bitrate" \notin DOMAIN arg.video_info.variants[1]
    /\ "bitrate" \in DOMAIN arg.video_info.variants[2]
    /\ "bitrate" \in DOMAIN arg.video_info.variants[3]
    /\ arg.video_info.variants[2].bitrate > 0
    /\ arg.video_info.variants[3].bitrate = arg.video_info.variants[2].bitrate
    /\ ret.value = arg.video_info.variants[2].url

\* The positions of a URL where each pattern matches.
FormatAt(url) == {i \in 1..Len(url) : MatchFormat(url, i)}

DotEndAt(url) == {i \in 1..Len(url) : MatchDotEnd(url, i)}

DotQueryAt(url) == {i \in 1..Len(url) : MatchDotQuery(url, i)}

Least(S) == CHOOSE i \in S : \A j \in S : i <= j

\* The run of \w characters that follows the n characters at position i.
ExtAfter(url, i, n) == SubSeq(url, i + n, i + n - 1 + WordRun(url, i + n))

\* C8 as stated: the rules apply in a fixed priority for every URL: the ext
\* of format=<ext> when the URL holds one, even after a dotted extension;
\* else the ext the URL ends with; else the ext of .<ext> followed by a
\* query string; else "jpg".
C8_FormatAlwaysFirst ==
    Returned("getFileExtensionFromUrl") =>
        ret.value =
            IF FormatAt(arg) # {} THEN ExtAfter(arg, Least(FormatAt(arg)), 7)
            ELSE IF DotEndAt(arg) # {} THEN ExtAfter(arg, Least(DotEndAt(arg)), 1)
            ELSE IF DotQueryAt(arg) # {} THEN ExtAfter(arg, Least(DotQueryAt(arg)), 1)
            ELSE Jpg

\* C8 amended: the ext returned is that of the leftmost place of the URL
\* where format=<ext> occurs, or .<ext> followed by a query string that runs
\* to the end of the URL without a line terminator, so that such a dotted
\* extension wins over a format= that comes after it; with neither, it is
\* the ext the URL ends with; else "jpg".
C8_LeftmostMatchFirst ==
    Returned("getFileExtensionFromUrl") =>
        LET either == FormatAt(arg) \cup DotQueryAt(arg) IN
        ret.value =
            IF either # {}
            THEN ExtAfter(arg, Least(either),
                          IF Least(either) \in FormatAt(arg) THEN 7 ELSE 1)
            ELSE IF DotEndAt(arg) # {} THEN ExtAfter(arg, Least(DotEndAt(arg)), 1)
            ELSE Jpg

\* A URL with .mp4 and a query string that holds format=png: mp4.
C8_Witness ==
    /\ Returned("getFileExtensionFromUrl")
    /\ FormatAt(arg) # {}
    /\ DotQueryAt(arg) # {}
    /\ Least(DotQueryAt(arg)) < Least(FormatAt(arg))
    /\ ret.value = <<"m","p","4">>

---------------------------------------------------------------------------
(* Properties of the entry classifiers. *)

HasPrefix(id, prefix) ==
    /\ Len(id) >= Len(prefix)
    /\ \A k \in 1..Len(prefix) : id[k] = prefix[k]

IsItemOf(entry, prefix, tag) ==
    /\ entry.content.entryType = "TimelineTimelineItem"
    /\ HasPrefix(entry.entryId, prefix)
    /\ entry.content.itemContent.__typename = tag

IsModuleOf(entry, prefix) ==
    /\ entry.content.entryType = "TimelineTimelineModule"
    /\ HasPrefix(entry.entryId, prefix)
    /\ "items" \in DOMAIN entry.content
    /\ "array" \in DOMAIN entry.content.items

Classifiers ==
    {"isTimelineEntryTweet", "isTimelineEntryUser",
     "isTimelineEntryConversationThread", "isTimelineEntryProfileConversation"}

\* C9: each predicate holds exactly when the id prefix, the content variant
\* and the inner shape agree; an entry whose prefix disagrees with its
\* content satisfies none, no error is raised, and no entry satisfies two of
\* the four.
C9_PrefixAndShapeAgree ==
    /\ Returned("isTimelineEntryTweet") =>
           ret = Return(IsItemOf(arg, PrefixTweet, "TimelineTweet"))
    /\ Returned("isTimelineEntryUser") =>
           ret = Return(IsItemOf(arg, PrefixUser, "TimelineUser"))
    /\ Returned("isTimelineEntryConversationThread") =>
           ret = Return(IsModuleOf(arg, PrefixConversationThread))
    /\ Returned("isTimelineEntryProfileConversation") =>
           ret = Return(IsModuleOf(arg, PrefixProfileConversation))
    /\ (pc = "done" /\ fn \in Classifiers) =>
           Cardinality({f \in Classifiers :
               \/ f = "isTimelineEntryTweet" /\ isTimelineEntryTweet(arg)
               \/ f = "isTimelineEntryUser" /\ isTimelineEntryUser(arg)
               \/ f = "isTimelineEntryConversationThread"
                      /\ isTimelineEntryConversationThread(arg)
               \/ f = "isTimelineEntryProfileConversation"
                      /\ isTimelineEntryProfileConversation(arg)}) <= 1

\* An entry with the id of a tweet and the content of a module is no tweet
\* entry.
C9_Witness ==
    /\ Returned("isTimelineEntryTweet")
    /\ HasPrefix(arg.entryId, PrefixTweet)
    /\ arg.content.entryType = "TimelineTimelineModule"
    /\ ret = Return(FALSE)

===========================================================================
